---- MODULE Spec2Model ----
(***************************************************************************)
(* Outbound-network capability layer: the HTTP dispatch pipeline           *)
(* (factor-outbound-http/src/wasi.rs), the key-value adapter               *)
(* (factor-outbound-redis/src/host.rs) and the relational adapter          *)
(* (outbound-mysql/src/lib.rs).  One component instance is modelled; Init  *)
(* picks which adapter the instance exposes and its immutable config.      *)
(* Every host function takes `&mut self`, so a handler of the key-value    *)
(* and relational adapters runs to completion before the next one starts   *)
(* (may_start): open, drop and the legacy verbs are one action each, a v2  *)
(* verb is a start step and a return step.  The HTTP request is a spawned  *)
(* task and is modelled step by step.  build_opts and from_redis_value    *)
(* are pure functions with specifications of their own (BuildOptsSpec,     *)
(* FromRedisValueSpec); HandlerSpec runs send_request_impl and             *)
(* send_request_handler on every descriptor and TLS flag.                  *)
(***************************************************************************)
EXTENDS Integers, Sequences, FiniteSets, TLC

\* ------------------------------------------------------------ bounds ----
\* capacity of the instance's connection table (fixed at construction)
Capacity == 2
\* most query pairs of an address handed to build_opts
MaxPairs == 2
\* most elements of an array or set of a reply handed to from_redis_value
MaxItems == 2

\* ------------------------------------------------------- input domains --
NoValue == "none"
Hosts == {"a.test", "b.test"}
\* the forms of an authority's host: a name, an IPv4 literal, a bracketed
\* IPv6 literal
Hostnames == Hosts
Ipv4Literals == {"192.0.2.1"}
Ipv6Literals == {"[::1]"}
\* resolved socket addresses: one public, one inside a private network
Addrs == {"203.0.113.5", "10.0.0.7"}
\* "wellformed": every parser accepts it; "garbage": no parser accepts it;
\* "clientbad": the policy's URL parser accepts it, the backend client's
\* parser does not (e.g. redis://a.test/notanumber)
Shapes == {"wellformed", "garbage", "clientbad"}
\* a destination: its scheme and port are NoValue when the string has none
Dest(shape, scheme, host, port) == [shape |-> shape, scheme |-> scheme, host |-> host, port |-> port]
NoAddress == Dest(NoValue, NoValue, NoValue, NoValue)
\* the address strings a guest passes to the key-value and relational adapters
Addresses ==
    {Dest("wellformed", NoValue, "a.test", NoValue), Dest("wellformed", NoValue, "b.test", NoValue),
     Dest("garbage", NoValue, "a.test", NoValue), Dest("clientbad", NoValue, "a.test", NoValue)}
Handles == 0 .. Capacity
\* a DNS lookup fails, or answers with one or more addresses
DnsFailure == [ok |-> FALSE, addrs |-> <<>>]
\* an answer lists distinct addresses, in the order the resolver gives them
DnsAnswers ==
    {s \in UNION {[1 .. n -> Addrs] : n \in 1 .. Cardinality(Addrs)} :
        \A i, j \in 1 .. Len(s) : i # j => s[i] # s[j]}
DnsResults == {[ok |-> TRUE, addrs |-> s] : s \in DnsAnswers} \cup {DnsFailure}
NoConn == [host |-> NoValue, peer |-> NoValue]

RedisVerbs == {"publish", "get", "set", "incr", "del", "sadd", "smembers", "srem", "execute"}
MysqlVerbs == {"execute", "query"}
\* what the destination service does with a command that reaches it
BackendReplies == {"ok", "transport_error", "type_error"}

Ok(v) == [ok |-> TRUE, value |-> v, error |-> NoValue]
Err(kind, msg) == [ok |-> FALSE, value |-> NoValue, error |-> [kind |-> kind, msg |-> msg]]

\* ------------------------------------------------------ Policy Engine ---
DefaultPort(scheme) ==
    CASE scheme = "http" -> "80"
      [] scheme = "https" -> "443"
      [] scheme = "redis" -> "6379"
      [] scheme = "mysql" -> "3306"

\* a destination is allowed iff one rule matches scheme, host and port
allows(policy, scheme, host, port) ==
    \E r \in policy.rules :
        /\ r.scheme = scheme
        /\ r.host = host
        /\ r.port = (IF port = NoValue THEN DefaultPort(scheme) ELSE port)

\* check_url(url, scheme): an unparseable string is rejected; `scheme` is
\* the scheme of a string that names none
check_url(policy, url, scheme) ==
    IF url.shape = "garbage" THEN FALSE
    ELSE allows(policy, IF url.scheme = NoValue THEN scheme ELSE url.scheme, url.host, url.port)

\* check_relative_url(schemes)
check_relative_url(policy, schemes) == \E s \in schemes : s \in policy.allow_self

\* --------------------------------------------- Blocked-Network Filter ---
InNetwork(a, n) == a = "10.0.0.7" /\ n = "10.0.0.0/8"

is_blocked(blocked, a) == \E i \in 1 .. Len(blocked) : InNetwork(a, blocked[i])

\* remove_blocked(&mut addrs) -> removed; addrs keeps the rest, in order
remove_blocked(blocked, addrs) ==
    [kept |-> SelectSeq(addrs, LAMBDA a : ~is_blocked(blocked, a)),
     removed |-> SelectSeq(addrs, LAMBDA a : is_blocked(blocked, a))]

\* ------------------------------------------ Connection Resource Table ---
EmptyTable == [k \in {} |-> NoValue]
TableLen(t) == Cardinality(DOMAIN t)
\* the key a push hands out: one that no live value holds
FreshKey(t) == CHOOSE h \in Handles \ DOMAIN t : \A g \in Handles \ DOMAIN t : h <= g
\* push(value): Err when the table holds `Capacity` values, else the value
\* is stored under a fresh key
TablePush(t, v) ==
    IF TableLen(t) >= Capacity
    THEN [ok |-> FALSE, key |-> -1, table |-> t]
    ELSE [ok |-> TRUE, key |-> FreshKey(t),
          table |-> [k \in DOMAIN t \cup {FreshKey(t)} |-> IF k = FreshKey(t) THEN v ELSE t[k]]]
TableRemove(t, h) == [k \in DOMAIN t \ {h} |-> t[k]]

\* ------------------------------------------------- backend clients ------
Range(s) == {s[i] : i \in 1 .. Len(s)}
\* the client connects to the addresses it was handed, in order, until one
\* accepts; `up` is the set of addresses that accept a connection
FirstUp(addrs, up) ==
    IF \E i \in 1 .. Len(addrs) : addrs[i] \in up
    THEN CHOOSE i \in 1 .. Len(addrs) : addrs[i] \in up /\ \A j \in 1 .. i - 1 : addrs[j] \notin up
    ELSE 0
Attempted(addrs, up) ==
    IF FirstUp(addrs, up) = 0 THEN addrs ELSE SubSeq(addrs, 1, FirstUp(addrs, up))

\* outcome of one handler: the value returned to the guest, the table it
\* leaves, and what it did on the network
Outcome(res, table, resolved_, handed_, attempts_, used_) ==
    [result |-> res, connections |-> table, resolved |-> resolved_,
     handed |-> handed_, attempts |-> attempts_, used |-> used_]
NoNetwork(res, table) == Outcome(res, table, <<>>, <<>>, <<>>, NoConn)

\* ------------------------------------------------------------ state -----
VARIABLES
    adapter,            \* "http", "redis" or "mysql": the adapter of this instance
    allowed_hosts,      \* the instance's Allowed-Hosts Policy
    blocked_networks,   \* the instance's Blocked-Network Set
    connections,        \* the Resource Table: handle -> live connection
    call,               \* the guest call that ran last
    result,             \* the value it returned to the guest
    resolved,           \* the DNS answer it obtained (<<>> if it resolved nothing)
    handed,             \* the addresses handed to the backend client
    attempts,           \* the addresses it attempted a connection to
    used,               \* the connection its backend command ran on (or NoConn)
    self_request_origin, \* HTTP: the instance's Self-Origin, or NoOrigin
    request_interceptor, \* HTTP: whether an interceptor is configured
    pc,                 \* HTTP: where the request in flight is
    request,            \* HTTP: the Outgoing Request Descriptor
    config,             \* HTTP: its OutgoingRequestConfig
    tls_client_config,  \* HTTP: the host whose TLS client configuration was fetched
    authority_str,      \* HTTP: the host and port handed to TcpStream::connect, or NoTarget
    server_name,        \* HTTP: the name the TLS handshake was given, or NoValue
    intercept,          \* HTTP: what the interceptor did with the request
    worker,             \* HTTP: the background connection driver
    stall,              \* HTTP: the phase in which the peer stopped answering, or NoValue
    in_progress,        \* the verbs that hold the instance state: started, not yet returned
    query,              \* build_opts: the query pairs of the address it is given
    opts,               \* build_opts: what it returned, or NoOpts
    value,              \* from_redis_value: the reply it is given
    redis_results       \* from_redis_value: what it returned, or NoResults

\* what no handler of the instance changes: its configuration, and the
\* inputs and outputs of build_opts and from_redis_value
cfg_vars == <<adapter, allowed_hosts, blocked_networks, self_request_origin, request_interceptor,
              query, opts, value, redis_results>>
obs_vars == <<call, result, resolved, handed, attempts, used>>
http_vars == <<pc, request, config, tls_client_config, authority_str, server_name, intercept,
               worker, stall>>
vars == <<cfg_vars, connections, obs_vars, http_vars, in_progress>>

\* ============================ key-value adapter =========================
\* faulty variant of is_address_allowed: a failed policy check counts as
\* allowed
redis_is_address_allowed_fail_open(policy, address, chk) ==
    IF chk = "error" THEN [ok |-> TRUE, allowed |-> TRUE]
    ELSE [ok |-> TRUE, allowed |-> check_url(policy, address, "redis")]

\* InstanceState::is_address_allowed; chk = "error" when the policy check
\* itself fails (check_url returns Err)
redis_is_address_allowed(policy, address, chk) ==
    IF chk = "error" THEN [ok |-> FALSE, allowed |-> FALSE]
    ELSE [ok |-> TRUE, allowed |-> check_url(policy, address, "redis")]

\* SpinResolver::resolve: lookup_host, then remove_blocked; the blocked
\* addresses are only logged
SpinResolver_resolve(blocked, dns) ==
    IF ~dns.ok THEN [ok |-> FALSE, addrs |-> <<>>]
    ELSE [ok |-> TRUE, addrs |-> remove_blocked(blocked, dns.addrs).kept]

\* fn other_error
other_error(msg) == Err("Other", msg)

\* faulty variant of establish_connection: a full table makes room by
\* replacing the connection of its lowest key
redis_establish_connection_evict(conns, blocked, address, dns, up) ==
    IF address.shape # "wellformed" THEN NoNetwork(Err("InvalidAddress", ""), conns)
    ELSE LET r == SpinResolver_resolve(blocked, dns) IN
         IF ~r.ok THEN NoNetwork(other_error("failed to lookup address information"), conns)
         ELSE LET k == FirstUp(r.addrs, up)
                  att == Attempted(r.addrs, up) IN
              IF k = 0
              THEN Outcome(other_error(IF r.addrs = <<>> THEN "no address" ELSE "connection refused"),
                           conns, dns.addrs, r.addrs, att, NoConn)
              ELSE LET room == IF TableLen(conns) >= Capacity
                               THEN TableRemove(conns, CHOOSE h \in DOMAIN conns :
                                                          \A g \in DOMAIN conns : h <= g)
                               ELSE conns
                       p == TablePush(room, [host |-> address.host, peer |-> r.addrs[k]]) IN
                   Outcome(Ok(p.key), p.table, dns.addrs, r.addrs, att, NoConn)

\* InstanceState::establish_connection
redis_establish_connection(conns, blocked, address, dns, up) ==
    IF address.shape # "wellformed" THEN NoNetwork(Err("InvalidAddress", ""), conns)
    ELSE LET r == SpinResolver_resolve(blocked, dns) IN
         IF ~r.ok THEN NoNetwork(other_error("failed to lookup address information"), conns)
         ELSE LET k == FirstUp(r.addrs, up)
                  att == Attempted(r.addrs, up) IN
              IF k = 0
              THEN Outcome(other_error(IF r.addrs = <<>> THEN "no address" ELSE "connection refused"),
                           conns, dns.addrs, r.addrs, att, NoConn)
              ELSE LET p == TablePush(conns, [host |-> address.host, peer |-> r.addrs[k]]) IN
                   IF p.ok THEN Outcome(Ok(p.key), p.table, dns.addrs, r.addrs, att, NoConn)
                   ELSE Outcome(Err("TooManyConnections", ""), conns, dns.addrs, r.addrs, att, NoConn)

\* InstanceState::get_conn
redis_get_conn(conns, handle) ==
    IF handle \in DOMAIN conns THEN Ok(conns[handle])
    ELSE Err("Other", "could not find connection for resource")

\* faulty variant of open: the connection is established before the policy
\* is consulted
redis_open_connect_first(conns, policy, blocked, address, chk, dns, up) ==
    LET e == redis_establish_connection(conns, blocked, address, dns, up)
        a == redis_is_address_allowed(policy, address, chk) IN
    IF ~a.ok THEN Outcome(Err("Other", "policy check failed"), conns, e.resolved, e.handed, e.attempts, NoConn)
    ELSE IF ~a.allowed THEN Outcome(Err("InvalidAddress", ""), conns, e.resolved, e.handed, e.attempts, NoConn)
    ELSE e

\* v2::HostConnection::open
redis_open(conns, policy, blocked, address, chk, dns, up) ==
    LET a == redis_is_address_allowed(policy, address, chk) IN
    IF ~a.ok THEN NoNetwork(Err("Other", "policy check failed"), conns)
    ELSE IF ~a.allowed THEN NoNetwork(Err("InvalidAddress", ""), conns)
    ELSE redis_establish_connection(conns, blocked, address, dns, up)

\* the error mapping of one verb: sadd tells a type error apart, every other
\* verb maps each driver error through other_error
redis_map_err(verb, reply) ==
    IF reply = "type_error"
    THEN IF verb = "sadd" THEN Err("TypeError", "") ELSE other_error("incompatible type")
    ELSE other_error("broken pipe")

\* v2::HostConnection::{publish, get, set, incr, del, sadd, smembers, srem, execute}
redis_verb(conns, verb, handle, reply) ==
    LET c == redis_get_conn(conns, handle) IN
    IF ~c.ok THEN NoNetwork(other_error(c.error.msg), conns)
    ELSE Outcome(IF reply = "ok" THEN Ok(verb) ELSE redis_map_err(verb, reply),
                 conns, <<>>, <<>>, <<>>, c.value)

\* faulty variant of drop: the connection stays in the table
redis_drop_keep(conns, handle) == NoNetwork(Ok(NoValue), conns)

\* v2::HostConnection::drop
redis_drop(conns, handle) == NoNetwork(Ok(NoValue), TableRemove(conns, handle))

\* delegate!: the legacy verb checks the address, establishes a connection
\* and calls the v2 verb on it; every error becomes v1::Error::Error
redis_delegate(conns, policy, blocked, verb, address, chk, dns, up, reply) ==
    LET a == redis_is_address_allowed(policy, address, chk) IN
    IF ~a.ok \/ ~a.allowed THEN NoNetwork(Err("Error", ""), conns)
    ELSE LET e == redis_establish_connection(conns, blocked, address, dns, up) IN
         IF ~e.result.ok
         THEN Outcome(Err("Error", ""), e.connections, e.resolved, e.handed, e.attempts, NoConn)
         ELSE LET v == redis_verb(e.connections, verb, e.result.value, reply) IN
              Outcome(IF v.result.ok THEN v.result ELSE Err("Error", ""),
                      v.connections, e.resolved, e.handed, e.attempts, v.used)

\* ---- RedisResults::from_redis_value
\* redis::Value: a leaf with its payload, or an array or set with its items
Leaf(tag, payload) == [tag |-> tag, payload |-> payload, items |-> <<>>]
Container(tag, items) == [tag |-> tag, payload |-> NoValue, items |-> items]
NoReply == Leaf(NoValue, NoValue)
NoResults == Ok(NoValue)
\* v2::RedisResult
RedisResult(tag, payload) == [tag |-> tag, payload |-> payload]
\* f64::to_string and BigInt::to_string: the decimal text of the number (the
\* f64 is written by its bits, the BigInt by its power)
to_string(v) ==
    CASE v = "0x3ff8000000000000" -> "1.5"
      [] v = "0xc004000000000000" -> "-2.5"
      [] v = "2^64" -> "18446744073709551616"
      [] OTHER -> v
\* the message of the error a reply kind without a conversion gives
Unsupported(tag) ==
    CASE tag = "Map" -> "Redis Map type is not supported"
      [] tag = "Attribute" -> "Redis Attribute type is not supported"
      [] tag = "VerbatimString" -> "Redis string with format attribute is not supported"
      [] tag = "Push" -> "Redis Pub/Sub types are not supported"

\* faulty variant of append_leaf: a reply kind without a conversion is skipped
append_leaf_skip_unsupported(values, v) ==
    CASE v.tag = "Nil" -> [ok |-> TRUE, values |-> Append(values, RedisResult("Nil", NoValue))]
      [] v.tag = "Int" -> [ok |-> TRUE, values |-> Append(values, RedisResult("Int64", v.payload))]
      [] v.tag = "BulkString" ->
            [ok |-> TRUE, values |-> Append(values, RedisResult("Binary", v.payload))]
      [] v.tag = "SimpleString" ->
            [ok |-> TRUE, values |-> Append(values, RedisResult("Status", v.payload))]
      [] v.tag = "Okay" -> [ok |-> TRUE, values |-> Append(values, RedisResult("Status", "OK"))]
      [] v.tag = "Double" ->
            [ok |-> TRUE, values |-> Append(values, RedisResult("Binary", to_string(v.payload)))]
      [] v.tag = "Boolean" ->
            [ok |-> TRUE,
             values |-> Append(values, RedisResult("Int64", IF v.payload = "true" THEN "1" ELSE "0"))]
      [] v.tag = "BigNumber" ->
            [ok |-> TRUE, values |-> Append(values, RedisResult("Binary", to_string(v.payload)))]
      [] OTHER -> [ok |-> TRUE, values |-> values]

\* fn append, the arms of the match that do not recurse: a value is pushed,
\* or an error is returned and nothing is pushed
append_leaf(values, v) ==
    CASE v.tag = "Nil" -> [ok |-> TRUE, values |-> Append(values, RedisResult("Nil", NoValue))]
      [] v.tag = "Int" -> [ok |-> TRUE, values |-> Append(values, RedisResult("Int64", v.payload))]
      [] v.tag = "BulkString" ->
            [ok |-> TRUE, values |-> Append(values, RedisResult("Binary", v.payload))]
      [] v.tag = "SimpleString" ->
            [ok |-> TRUE, values |-> Append(values, RedisResult("Status", v.payload))]
      [] v.tag = "Okay" -> [ok |-> TRUE, values |-> Append(values, RedisResult("Status", "OK"))]
      [] v.tag \in {"Map", "Attribute", "VerbatimString", "Push"} ->
            [ok |-> FALSE, values |-> values, error |-> Err("TypeError", Unsupported(v.tag))]
      [] v.tag = "Double" ->
            [ok |-> TRUE, values |-> Append(values, RedisResult("Binary", to_string(v.payload)))]
      [] v.tag = "Boolean" ->
            [ok |-> TRUE,
             values |-> Append(values, RedisResult("Int64", IF v.payload = "true" THEN "1" ELSE "0"))]
      [] v.tag = "BigNumber" ->
            [ok |-> TRUE, values |-> Append(values, RedisResult("Binary", to_string(v.payload)))]
      [] v.tag = "ServerError" ->
            [ok |-> FALSE, values |-> values, error |-> Err("ResponseError", "Server error")]

\* fn append: an array or set appends its items in order and stops at the
\* first one that fails (try_for_each)
RECURSIVE append(_, _)
RECURSIVE append_items(_, _)
append(values, v) ==
    IF v.tag \in {"Array", "Set"} THEN append_items(values, v.items) ELSE append_leaf(values, v)
append_items(values, items) ==
    IF items = <<>> THEN [ok |-> TRUE, values |-> values]
    ELSE LET r == append(values, Head(items)) IN
         IF r.ok THEN append_items(r.values, Tail(items)) ELSE r

\* from_redis_value: the list, or the error of the value that failed
from_redis_value(v) ==
    LET r == append(<<>>, v) IN IF r.ok THEN Ok(r.values) ELSE r.error

\* the replies from_redis_value is given: every kind of leaf, arrays and sets
\* of leaves, and arrays and sets that hold sets
Leaves ==
    {Leaf("Nil", NoValue), Leaf("Int", "-7"), Leaf("BulkString", "bytes"),
     Leaf("SimpleString", "PONG"), Leaf("Okay", NoValue), Leaf("Map", NoValue),
     Leaf("Attribute", NoValue), Leaf("VerbatimString", NoValue), Leaf("Push", NoValue),
     Leaf("ServerError", NoValue), Leaf("Double", "0x3ff8000000000000"),
     Leaf("Boolean", "true"), Leaf("Boolean", "false"), Leaf("BigNumber", "2^64")}
ItemsOf(S) == UNION {[1 .. n -> S] : n \in 0 .. MaxItems}
FlatReplies == {Container(t, s) : t \in {"Array", "Set"}, s \in ItemsOf(Leaves)}
InnerLeaves == {Leaf("Int", "-7"), Leaf("Map", NoValue)}
InnerReplies == {Container("Set", s) : s \in ItemsOf(InnerLeaves)}
NestedReplies ==
    {Container(t, s) : t \in {"Array", "Set"}, s \in ItemsOf({Leaf("Okay", NoValue)} \cup InnerReplies)}
Replies == Leaves \cup FlatReplies \cup NestedReplies

\* ============================= relational adapter =======================
\* OutboundMysql::is_address_allowed
mysql_is_address_allowed(policy, address) == check_url(policy, address, "mysql")

\* build_conn: build_opts parses the address with Url::parse and hands the
\* cleaned URL to OptsBuilder::from_opts, which returns a builder, not a
\* Result: it unwraps the driver's own parse of the URL, so a URL that
\* Url::parse accepts and the driver rejects ("clientbad", e.g. an unknown
\* query parameter) panics in the host.  Then the pool connects using the
\* driver's own resolution: no resolver is passed to it.
build_conn(address, dns, up) ==
    IF address.shape = "garbage" THEN [ok |-> FALSE, panic |-> FALSE, msg |-> "url error", resolved |-> <<>>, attempts |-> <<>>, peer |-> NoValue]
    ELSE IF address.shape = "clientbad" THEN [ok |-> FALSE, panic |-> TRUE, msg |-> "panic", resolved |-> <<>>, attempts |-> <<>>, peer |-> NoValue]
    ELSE IF ~dns.ok THEN [ok |-> FALSE, panic |-> FALSE, msg |-> "failed to lookup address information", resolved |-> <<>>, attempts |-> <<>>, peer |-> NoValue]
    ELSE IF FirstUp(dns.addrs, up) = 0 THEN [ok |-> FALSE, panic |-> FALSE, msg |-> "connection refused", resolved |-> dns.addrs, attempts |-> dns.addrs, peer |-> NoValue]
    ELSE [ok |-> TRUE, panic |-> FALSE, msg |-> "", resolved |-> dns.addrs, attempts |-> Attempted(dns.addrs, up),
          peer |-> dns.addrs[FirstUp(dns.addrs, up)]]

\* ---- build_opts
\* str::to_lowercase, on the strings of the query pairs
to_lowercase(str) ==
    CASE str = "sslMode" -> "sslmode"
      [] str = "SsLmOdE" -> "sslmode"
      [] str = "SSL-MODE" -> "ssl-mode"
      [] str = "DISABLED" -> "disabled"
      [] str = "Disabled" -> "disabled"
      [] str = "VERIFY_CA" -> "verify_ca"
      [] OTHER -> str

\* faulty variant of is_ssl_param: the key is compared as written
is_ssl_param_exact(str) == str \in {"ssl-mode", "sslmode"}

\* fn is_ssl_param
is_ssl_param(str) == to_lowercase(str) \in {"ssl-mode", "sslmode"}

\* the driver's parse of the URL it is given (Opts::try_from): it knows the
\* pool_max parameter, whose value must be a number, and rejects a
\* parameter it does not know; the last pool_max pair sets the pool's
\* maximum, whose default is 100
driver_accepts(pairs) ==
    \A i \in 1 .. Len(pairs) : pairs[i].key = "pool_max" /\ pairs[i].value \in {"10", "20"}
driver_pool_max(pairs) ==
    IF \E i \in 1 .. Len(pairs) : pairs[i].key = "pool_max"
    THEN pairs[CHOOSE i \in 1 .. Len(pairs) :
                  /\ pairs[i].key = "pool_max"
                  /\ \A j \in i + 1 .. Len(pairs) : pairs[j].key # "pool_max"].value
    ELSE "100"

\* fn build_opts, for an address Url::parse accepts: use_ssl and the query
\* without its ssl pairs are computed, then OptsBuilder::from_opts is given
\* the cleaned URL and panics if the driver rejects it
build_opts(pairs) ==
    LET use_ssl == \E i \in 1 .. Len(pairs) :
                       is_ssl_param(pairs[i].key) /\ to_lowercase(pairs[i].value) # "disabled"
        query_without_ssl == SelectSeq(pairs, LAMBDA kv : ~is_ssl_param(kv.key)) IN
    IF driver_accepts(query_without_ssl)
    THEN [panic |-> FALSE, cleaned_url |-> query_without_ssl, ssl_opts |-> use_ssl,
          pool_max |-> driver_pool_max(query_without_ssl)]
    ELSE [panic |-> TRUE, cleaned_url |-> query_without_ssl, ssl_opts |-> FALSE,
          pool_max |-> NoValue]

\* OutboundMysql::open_connection; a panic of build_conn unwinds through it
\* (HostError: the call does not return a value to the guest)
mysql_open_connection(conns, address, dns, up) ==
    LET b == build_conn(address, dns, up) IN
    IF b.panic THEN NoNetwork(Err("HostError", b.msg), conns)
    ELSE IF ~b.ok THEN Outcome(Err("ConnectionFailed", b.msg), conns, b.resolved, b.resolved, b.attempts, NoConn)
    ELSE LET p == TablePush(conns, [host |-> address.host, peer |-> b.peer]) IN
         IF p.ok THEN Outcome(Ok(p.key), p.table, b.resolved, b.resolved, b.attempts, NoConn)
         ELSE Outcome(Err("ConnectionFailed", "too many connections"), conns, b.resolved, b.resolved, b.attempts, NoConn)

\* OutboundMysql::get_conn
mysql_get_conn(conns, handle) ==
    IF handle \in DOMAIN conns THEN Ok(conns[handle])
    ELSE Err("ConnectionFailed", "no connection found")

\* v2::HostConnection::open
mysql_open(conns, policy, address, dns, up) ==
    IF ~mysql_is_address_allowed(policy, address)
    THEN NoNetwork(Err("ConnectionFailed", "address is not permitted"), conns)
    ELSE mysql_open_connection(conns, address, dns, up)

\* v2::HostConnection::{execute, query}: a failed statement is QueryFailed;
\* query can also fail while collecting the rows (Other) or converting a
\* value (ValueConversionFailed)
mysql_verb(conns, verb, handle, reply) ==
    LET c == mysql_get_conn(conns, handle) IN
    IF ~c.ok THEN NoNetwork(c, conns)
    ELSE Outcome(CASE reply = "ok" -> Ok(verb)
                   [] reply = "transport_error" -> Err("QueryFailed", "driver error")
                   [] reply = "type_error" ->
                        IF verb = "query" THEN Err("ValueConversionFailed", "cannot convert value")
                        ELSE Err("QueryFailed", "driver error"),
                 conns, <<>>, <<>>, <<>>, c.value)

\* faulty variant of drop: the whole table is emptied
mysql_drop_clears(conns, handle) == NoNetwork(Ok(NoValue), EmptyTable)

\* v2::HostConnection::drop
mysql_drop(conns, handle) == NoNetwork(Ok(NoValue), TableRemove(conns, handle))

\* From<v2::Error> for v1::MysqlError
v1_mysql_error(r) ==
    IF r.ok THEN r
    ELSE Err(IF r.error.kind = "Other" THEN "OtherError" ELSE r.error.kind, r.error.msg)

\* delegate!
mysql_delegate(conns, policy, verb, address, dns, up, reply) ==
    IF ~mysql_is_address_allowed(policy, address)
    THEN NoNetwork(Err("ConnectionFailed", "address is not permitted"), conns)
    ELSE LET e == mysql_open_connection(conns, address, dns, up) IN
         IF ~e.result.ok
         THEN Outcome(v1_mysql_error(e.result), e.connections, e.resolved, e.handed, e.attempts, NoConn)
         ELSE LET v == mysql_verb(e.connections, verb, e.result.value, reply) IN
              Outcome(v1_mysql_error(v.result), v.connections, e.resolved, e.handed, e.attempts, v.used)

\* ============================ HTTP dispatch pipeline ====================
NoOrigin == [scheme |-> NoValue, host |-> NoValue]
Req(shape, scheme, host, port, path, host_header) ==
    [shape |-> shape, scheme |-> scheme, host |-> host, port |-> port, path |-> path,
     host_header |-> host_header]
NoRequest == Req(NoValue, NoValue, NoValue, NoValue, NoValue, NoValue)
Pending == Ok("pending")

\* request.uri().authority().is_some()
has_authority(req) == req.host # NoValue

\* SelfRequestOrigin::use_tls
origin_use_tls(origin) == origin.scheme = "https"
\* SelfRequestOrigin::host_header and SelfRequestOrigin::into_uri: the
\* origin's scheme and authority, then the request's path and query
origin_rewrite(origin, req) ==
    [req EXCEPT !.shape = "wellformed", !.scheme = origin.scheme, !.host = origin.host,
                !.port = NoValue, !.host_header = origin.host]

\* what a configured interceptor does with the descriptor it is handed: it
\* leaves it alone, points it at another authority, or completes the request
InterceptOutcomes(configured) ==
    IF configured THEN {"continue", "mutate", "complete"} ELSE {NoValue}
intercepted(req, ic) ==
    IF ic = "mutate"
    THEN [req EXCEPT !.shape = "wellformed", !.scheme = "https", !.host = "b.test", !.port = NoValue]
    ELSE req

\* faulty variant of send_request: the pipeline goes on after the interceptor
\* completed the request
send_request_ignore_complete(req, ic) ==
    [complete |-> FALSE, result |-> Pending, request |-> intercepted(req, ic),
     tls_client_config |-> IF has_authority(intercepted(req, ic))
                           THEN intercepted(req, ic).host ELSE ""]

\* WasiHttpView::send_request: the interceptor runs first; unless it
\* completes the request, the TLS client configuration of the URI's host is
\* fetched and send_request_impl is spawned
send_request(req, ic) ==
    IF ic = "complete"
    THEN [complete |-> TRUE, result |-> Ok("intercepted"), request |-> req,
          tls_client_config |-> NoValue]
    ELSE [complete |-> FALSE, result |-> Pending, request |-> intercepted(req, ic),
          tls_client_config |-> IF has_authority(intercepted(req, ic))
                                THEN intercepted(req, ic).host ELSE ""]

\* faulty variant of send_request_impl: a failed policy check counts as
\* allowed (unwrap_or(true))
send_request_impl_unwrap_or_true(req, cfg, policy, origin, chk) ==
    IF has_authority(req)
    THEN IF ~(chk = "error" \/ check_url(policy, req, "https"))
         THEN [done |-> TRUE, result |-> Err("HttpRequestDenied", ""), request |-> req, config |-> cfg]
         ELSE [done |-> FALSE, result |-> Pending, request |-> req, config |-> cfg]
    ELSE IF ~(chk = "error" \/ check_relative_url(policy, {"http", "https"}))
         THEN [done |-> TRUE, result |-> Err("HttpRequestDenied", ""), request |-> req, config |-> cfg]
         ELSE IF origin = NoOrigin
         THEN [done |-> TRUE, result |-> Err("HttpRequestUriInvalid", ""), request |-> req, config |-> cfg]
         ELSE [done |-> FALSE, result |-> Pending, request |-> origin_rewrite(origin, req),
               config |-> [cfg EXCEPT !.use_tls = origin_use_tls(origin)]]

\* faulty variant of send_request_impl: the rewrite keeps the caller's TLS flag
send_request_impl_keep_tls(req, cfg, policy, origin, chk) ==
    IF has_authority(req)
    THEN IF ~(chk = "decide" /\ check_url(policy, req, "https"))
         THEN [done |-> TRUE, result |-> Err("HttpRequestDenied", ""), request |-> req, config |-> cfg]
         ELSE [done |-> FALSE, result |-> Pending, request |-> req, config |-> cfg]
    ELSE IF ~(chk = "decide" /\ check_relative_url(policy, {"http", "https"}))
         THEN [done |-> TRUE, result |-> Err("HttpRequestDenied", ""), request |-> req, config |-> cfg]
         ELSE IF origin = NoOrigin
         THEN [done |-> TRUE, result |-> Err("HttpRequestUriInvalid", ""), request |-> req, config |-> cfg]
         ELSE [done |-> FALSE, result |-> Pending, request |-> origin_rewrite(origin, req), config |-> cfg]

\* faulty variant of send_request_impl: the self-request origin is looked at
\* before the relative check
send_request_impl_origin_first(req, cfg, policy, origin, chk) ==
    IF has_authority(req)
    THEN IF ~(chk = "decide" /\ check_url(policy, req, "https"))
         THEN [done |-> TRUE, result |-> Err("HttpRequestDenied", ""), request |-> req, config |-> cfg]
         ELSE [done |-> FALSE, result |-> Pending, request |-> req, config |-> cfg]
    ELSE IF origin = NoOrigin
         THEN [done |-> TRUE, result |-> Err("HttpRequestUriInvalid", ""), request |-> req, config |-> cfg]
         ELSE IF ~(chk = "decide" /\ check_relative_url(policy, {"http", "https"}))
         THEN [done |-> TRUE, result |-> Err("HttpRequestDenied", ""), request |-> req, config |-> cfg]
         ELSE [done |-> FALSE, result |-> Pending, request |-> origin_rewrite(origin, req),
               config |-> [cfg EXCEPT !.use_tls = origin_use_tls(origin)]]

\* send_request_impl, up to its call of send_request_handler; chk = "error"
\* when the policy check itself fails, which unwrap_or(false) turns into a
\* denial
send_request_impl(req, cfg, policy, origin, chk) ==
    IF has_authority(req)
    THEN IF ~(chk = "decide" /\ check_url(policy, req, "https"))
         THEN [done |-> TRUE, result |-> Err("HttpRequestDenied", ""), request |-> req, config |-> cfg]
         ELSE [done |-> FALSE, result |-> Pending, request |-> req, config |-> cfg]
    ELSE IF ~(chk = "decide" /\ check_relative_url(policy, {"http", "https"}))
         THEN [done |-> TRUE, result |-> Err("HttpRequestDenied", ""), request |-> req, config |-> cfg]
         ELSE IF origin = NoOrigin
         THEN [done |-> TRUE, result |-> Err("HttpRequestUriInvalid", ""), request |-> req, config |-> cfg]
         ELSE IF ~has_authority(origin_rewrite(origin, req))
         THEN [done |-> TRUE, result |-> Err("HostError", "authority not set"),
               request |-> origin_rewrite(origin, req),
               config |-> [cfg EXCEPT !.use_tls = origin_use_tls(origin)]]
         ELSE [done |-> FALSE, result |-> Pending, request |-> origin_rewrite(origin, req),
               config |-> [cfg EXCEPT !.use_tls = origin_use_tls(origin)]]

\* fn dns_error
dns_error(rcode) == Err("DnsError", rcode)
\* fn hyper_request_error
hyper_request_error == Err("HttpProtocolError", "")

\* send_request_handler: the authority string handed to TcpStream::connect
NoTarget == [host |-> NoValue, port |-> NoValue]
\* faulty variant of authority_str_of: the default port follows the URI scheme
authority_str_of_scheme(req, use_tls) ==
    [host |-> req.host,
     port |-> IF req.port # NoValue THEN req.port ELSE DefaultPort(req.scheme)]
authority_str_of(req, use_tls) ==
    [host |-> req.host,
     port |-> IF req.port # NoValue THEN req.port ELSE IF use_tls THEN "443" ELSE "80"]

\* send_request_handler, the connect phase: TcpStream::connect resolves the
\* authority string and connects to the addresses of the answer, in order,
\* under the connect timeout.  `timely` is FALSE when the timeout fires
\* first; `io` is the kind of the error of a failed connect.
ConnectIo == {"refused", "addr_not_available"}
connect_phase(req, use_tls, timely, dns, up, io) ==
    IF ~has_authority(req)
    THEN [ok |-> FALSE, result |-> Err("HttpRequestUriInvalid", ""), target |-> NoTarget,
          resolved |-> <<>>, attempts |-> <<>>, peer |-> NoValue]
    ELSE IF ~timely
    THEN [ok |-> FALSE, result |-> Err("ConnectionTimeout", ""),
          target |-> authority_str_of(req, use_tls), resolved |-> dns.addrs,
          attempts |-> IF dns.ok THEN <<dns.addrs[1]>> ELSE <<>>, peer |-> NoValue]
    ELSE IF ~dns.ok
    THEN [ok |-> FALSE, result |-> dns_error("address not available"),
          target |-> authority_str_of(req, use_tls), resolved |-> <<>>, attempts |-> <<>>,
          peer |-> NoValue]
    ELSE IF FirstUp(dns.addrs, up) = 0
    THEN [ok |-> FALSE,
          result |-> IF io = "addr_not_available" THEN dns_error("address not available")
                     ELSE Err("ConnectionRefused", ""),
          target |-> authority_str_of(req, use_tls), resolved |-> dns.addrs,
          attempts |-> dns.addrs, peer |-> NoValue]
    ELSE [ok |-> TRUE, result |-> Pending, target |-> authority_str_of(req, use_tls),
          resolved |-> dns.addrs, attempts |-> Attempted(dns.addrs, up),
          peer |-> dns.addrs[FirstUp(dns.addrs, up)]]

\* authority_str.split(':').next(): the text before the first colon of
\* "host:port"; a bracketed IPv6 literal has its first colon inside the
\* brackets
split_colon_first(authority) ==
    IF authority.host \in Ipv6Literals THEN "[" ELSE authority.host
\* rustls ServerName::try_from(&str): a DNS name or an IP address in text form
ServerName_try_from(name) == name \in Hostnames \cup Ipv4Literals \cup {"::1"}
\* send_request_handler, the TLS branch after the TCP connection is made
tls_phase(authority, outcome) ==
    IF ~ServerName_try_from(split_colon_first(authority))
    THEN [ok |-> FALSE, result |-> dns_error("invalid dns name"), domain |-> NoValue]
    ELSE IF outcome = "error"
    THEN [ok |-> FALSE, result |-> Err("TlsProtocolError", ""),
          domain |-> split_colon_first(authority)]
    ELSE [ok |-> TRUE, result |-> Pending, domain |-> split_colon_first(authority)]

\* send_request_handler, the HTTP/1.1 handshake under the connect timeout
handshake_phase(outcome) ==
    CASE outcome = "ok" -> Pending
      [] outcome = "timeout" -> Err("ConnectionTimeout", "")
      [] outcome = "error" -> hyper_request_error

\* faulty variant of send_phase: one timeout code for every phase
send_phase_one_timeout_code(outcome) ==
    CASE outcome = "ok" -> Ok("response")
      [] outcome = "timeout" -> Err("ConnectionTimeout", "")
      [] outcome = "error" -> hyper_request_error

\* send_request_handler, the send under the first-byte timeout
send_phase(outcome) ==
    CASE outcome = "ok" -> Ok("response")
      [] outcome = "timeout" -> Err("ConnectionReadTimeout", "")
      [] outcome = "error" -> hyper_request_error

\* the request line sent: scheme and authority removed, the path kept
origin_form(req) == [req EXCEPT !.scheme = NoValue, !.host = NoValue, !.port = NoValue,
                                !.path = IF req.path = "" THEN "/" ELSE req.path]

\* ================================ the instance ==========================
Rule(scheme, host) == [scheme |-> scheme, host |-> host, port |-> DefaultPort(scheme)]
DenyAll == [rules |-> {}, allow_self |-> {}]
PolicyConfigs(a) ==
    CASE a = "redis" -> {DenyAll, [rules |-> {Rule("redis", "a.test")}, allow_self |-> {}]}
      [] a = "mysql" -> {DenyAll, [rules |-> {Rule("mysql", "a.test")}, allow_self |-> {}]}
      [] a = "http" -> {[rules |-> {Rule("https", "a.test")}, allow_self |-> {}],
                        [rules |-> {Rule("https", "a.test")}, allow_self |-> {"http", "https"}]}
OriginConfigs(a) ==
    IF a = "http"
    THEN {NoOrigin, [scheme |-> "https", host |-> "a.test"], [scheme |-> "http", host |-> "b.test"]}
    ELSE {NoOrigin}
\* the requests a guest sends: absolute ones, whose TLS flag follows the
\* scheme, and relative ones
AbsoluteRequests ==
    {Req("wellformed", sc, h, p, "/api/x", NoValue) :
        sc \in {"http", "https"}, h \in Hosts, p \in {NoValue, "8443"}}
    \cup {Req("garbage", "https", "a.test", NoValue, "/api/x", NoValue)}
RelativeRequest == Req("wellformed", NoValue, NoValue, NoValue, "/api/x", NoValue)
Requests == AbsoluteRequests \cup {RelativeRequest}
TlsFlags(req) == IF has_authority(req) THEN {req.scheme = "https"} ELSE BOOLEAN
\* the phases of send_request_handler that await the peer
Phases == {"connect", "tls", "handshake", "send"}
\* how an awaited phase ends: a peer that answers lets it succeed or fail; a
\* peer that has stopped answering lets only a timeout end it
PhaseOutcomes(stalled) == IF stalled THEN {"timeout"} ELSE {"ok", "error"}
BlockedConfigs == {<<>>, <<"10.0.0.0/8">>}
\* a guest call and its environment: how the policy check ended (chk) and
\* what the destination did with the command (reply)
NoCall == [iface |-> NoValue, op |-> NoValue, address |-> NoAddress, handle |-> -1, chk |-> NoValue,
           reply |-> NoValue]
Call(iface, op, address, handle, chk) ==
    [iface |-> iface, op |-> op, address |-> address, handle |-> handle, chk |-> chk,
     reply |-> NoValue]
\* the reply is the destination's only when the command ran on a connection
Replied(c, outcome, reply) == [c EXCEPT !.reply = IF outcome.used # NoConn THEN reply ELSE NoValue]

\* the query pairs of the addresses build_opts is given
QueryKeys == {"ssl-mode", "sslmode", "sslMode", "SsLmOdE", "SSL-MODE", "pool_max", "foo"}
QueryValues == {"DISABLED", "disabled", "Disabled", "VERIFY_CA", "10", "20"}
QueryPairs == {[key |-> k, value |-> v] : k \in QueryKeys, v \in QueryValues}
Queries == UNION {[1 .. n -> QueryPairs] : n \in 0 .. MaxPairs}
NoOpts == [panic |-> FALSE, cleaned_url |-> <<>>, ssl_opts |-> FALSE, pool_max |-> NoValue]

Init ==
    /\ adapter \in {"http", "redis", "mysql"}
    /\ allowed_hosts \in PolicyConfigs(adapter)
    /\ blocked_networks \in BlockedConfigs
    /\ self_request_origin \in OriginConfigs(adapter)
    /\ request_interceptor \in (IF adapter = "http" THEN BOOLEAN ELSE {FALSE})
    /\ pc = "idle"
    /\ request = NoRequest
    /\ config = [use_tls |-> FALSE]
    /\ tls_client_config = NoValue
    /\ authority_str = NoTarget
    /\ server_name = NoValue
    /\ intercept = NoValue
    /\ worker = "none"
    /\ stall = NoValue
    /\ in_progress = <<>>
    /\ query = <<>>
    /\ opts = NoOpts
    /\ value = NoReply
    /\ redis_results = NoResults
    /\ connections = EmptyTable
    /\ call = NoCall
    /\ result = Ok(NoValue)
    /\ resolved = <<>>
    /\ handed = <<>>
    /\ attempts = <<>>
    /\ used = NoConn

\* the handler returns: its outcome becomes the observable state.  The
\* guest makes one call at a time and takes its result before the next.
Return(c, outcome) ==
    \E o \in {outcome} :
    /\ call' = c
    /\ result' = o.result
    /\ connections' = o.connections
    /\ resolved' = o.resolved
    /\ handed' = o.handed
    /\ attempts' = o.attempts
    /\ used' = o.used
    /\ UNCHANGED <<cfg_vars, http_vars>>

\* The environment of one call: the DNS answer, the addresses that accept a
\* connection and the destination's reply.  Only addresses of the answer can
\* be connected to, and the destination replies only to a command sent on
\* a connection (`cmd`).
UpFor(dns) == SUBSET Range(dns.addrs)
RepliesFor(cmd) == IF cmd THEN BackendReplies ELSE {"ok"}
Checks == {"decide", "error"}

\* faulty variant of may_start: the handlers share the instance state
\* (`&self`), so a verb starts while another is in progress
may_start_shared(in_prog) == Len(in_prog) < 2

\* every host function takes `&mut self`: a handler starts only when no
\* other handler holds the instance state
may_start(in_prog) == in_prog = <<>>

RedisOpen ==
    /\ adapter = "redis"
    /\ call = NoCall
    /\ may_start(in_progress)
    /\ UNCHANGED in_progress
    /\ \E address \in Addresses, chk \in Checks, dns \in DnsResults :
       \E up \in UpFor(dns) :
          Return(Call("v2", "open", address, -1, chk),
                 redis_open(connections, allowed_hosts, blocked_networks, address, chk, dns, up))

\* a v2 verb is called: the handler takes the instance state
RedisVerbBegin ==
    /\ adapter = "redis"
    /\ call = NoCall
    /\ may_start(in_progress)
    /\ \E verb \in RedisVerbs, handle \in Handles :
          in_progress' = Append(in_progress, [verb |-> verb, handle |-> handle])
    /\ UNCHANGED <<cfg_vars, connections, obs_vars, http_vars>>

\* the verb that started first runs on its connection and returns
RedisVerb ==
    /\ adapter = "redis"
    /\ call = NoCall
    /\ in_progress # <<>>
    /\ in_progress' = Tail(in_progress)
    /\ \E reply \in RepliesFor(Head(in_progress).handle \in DOMAIN connections) :
       \E o \in {redis_verb(connections, Head(in_progress).verb, Head(in_progress).handle, reply)} :
          Return(Replied(Call("v2", Head(in_progress).verb, NoAddress, Head(in_progress).handle,
                              NoValue), o, reply), o)

RedisDrop ==
    /\ adapter = "redis"
    /\ call = NoCall
    /\ may_start(in_progress)
    /\ UNCHANGED in_progress
    /\ \E handle \in Handles :
          Return(Call("v2", "drop", NoAddress, handle, NoValue), redis_drop(connections, handle))

RedisV1Verb ==
    /\ adapter = "redis"
    /\ call = NoCall
    /\ may_start(in_progress)
    /\ UNCHANGED in_progress
    /\ \E verb \in RedisVerbs, address \in Addresses, chk \in Checks, dns \in DnsResults :
       \E up \in UpFor(dns) :
       \E reply \in RepliesFor(FirstUp(dns.addrs, up) # 0) :
       \E o \in {redis_delegate(connections, allowed_hosts, blocked_networks, verb, address,
                                chk, dns, up, reply)} :
          Return(Replied(Call("v1", verb, address, -1, chk), o, reply), o)

MysqlOpen ==
    /\ adapter = "mysql"
    /\ call = NoCall
    /\ may_start(in_progress)
    /\ UNCHANGED in_progress
    /\ \E address \in Addresses :
       \E dns \in DnsResults :
       \E up \in UpFor(dns) :
          Return(Call("v2", "open", address, -1, "decide"),
                 mysql_open(connections, allowed_hosts, address, dns, up))

\* execute or query is called: the handler takes the instance state
MysqlVerbBegin ==
    /\ adapter = "mysql"
    /\ call = NoCall
    /\ may_start(in_progress)
    /\ \E verb \in MysqlVerbs, handle \in Handles :
          in_progress' = Append(in_progress, [verb |-> verb, handle |-> handle])
    /\ UNCHANGED <<cfg_vars, connections, obs_vars, http_vars>>

MysqlVerb ==
    /\ adapter = "mysql"
    /\ call = NoCall
    /\ in_progress # <<>>
    /\ in_progress' = Tail(in_progress)
    /\ \E reply \in RepliesFor(Head(in_progress).handle \in DOMAIN connections) :
       \E o \in {mysql_verb(connections, Head(in_progress).verb, Head(in_progress).handle, reply)} :
          Return(Replied(Call("v2", Head(in_progress).verb, NoAddress, Head(in_progress).handle,
                              NoValue), o, reply), o)

MysqlDrop ==
    /\ adapter = "mysql"
    /\ call = NoCall
    /\ may_start(in_progress)
    /\ UNCHANGED in_progress
    /\ \E handle \in Handles :
          Return(Call("v2", "drop", NoAddress, handle, NoValue), mysql_drop(connections, handle))

MysqlV1Verb ==
    /\ adapter = "mysql"
    /\ call = NoCall
    /\ may_start(in_progress)
    /\ UNCHANGED in_progress
    /\ \E verb \in MysqlVerbs, address \in Addresses :
       \E dns \in DnsResults :
       \E up \in UpFor(dns) :
       \E reply \in RepliesFor(FirstUp(dns.addrs, up) # 0) :
       \E o \in {mysql_delegate(connections, allowed_hosts, verb, address, dns, up, reply)} :
          Return(Replied(Call("v1", verb, address, -1, "decide"), o, reply), o)

\* the guest takes the result of its call; the record of the call is dropped
GuestTakesResult ==
    /\ adapter \in {"redis", "mysql"}
    /\ call # NoCall
    /\ call' = NoCall
    /\ result' = Ok(NoValue)
    /\ resolved' = <<>>
    /\ handed' = <<>>
    /\ attempts' = <<>>
    /\ used' = NoConn
    /\ UNCHANGED <<cfg_vars, in_progress, connections, http_vars>>

\* ---- HTTP: one request at a time, step by step
HttpSendRequest ==
    /\ adapter = "http"
    /\ pc \in {"idle", "done"}
    /\ \E req \in Requests :
       \E use_tls \in TlsFlags(req), ic \in InterceptOutcomes(request_interceptor) :
       \E r \in {send_request(req, ic)} :
          /\ call' = Call("http", "send", req, -1, NoValue)
          /\ intercept' = ic
          /\ request' = r.request
          /\ config' = [use_tls |-> use_tls]
          /\ tls_client_config' = r.tls_client_config
          /\ authority_str' = NoTarget
          /\ server_name' = NoValue
          /\ result' = r.result
          /\ pc' = IF r.complete THEN "done" ELSE "spawned"
          /\ resolved' = <<>>
          /\ handed' = <<>>
          /\ attempts' = <<>>
          /\ used' = NoConn
          /\ worker' = "none"
          /\ stall' = NoValue
          /\ UNCHANGED <<cfg_vars, in_progress, connections>>

HttpSendRequestImpl ==
    /\ adapter = "http"
    /\ pc = "spawned"
    /\ \E chk \in Checks :
       \E r \in {send_request_impl(request, config, allowed_hosts, self_request_origin, chk)} :
          /\ call' = [call EXCEPT !.chk = chk]
          /\ request' = r.request
          /\ config' = r.config
          /\ result' = r.result
          /\ pc' = IF r.done THEN "done" ELSE "connect"
          /\ UNCHANGED <<cfg_vars, in_progress, connections, resolved, handed, attempts, used,
                         tls_client_config, authority_str, server_name, intercept, worker, stall>>

HttpConnect ==
    /\ adapter = "http"
    /\ pc = "connect"
    /\ \E timely \in {stall # "connect"}, dns \in DnsResults :
       \E up \in UpFor(dns) :
       \E io \in (IF timely /\ dns.ok /\ FirstUp(dns.addrs, up) = 0 THEN ConnectIo ELSE {"refused"}) :
       \E r \in {connect_phase(request, config.use_tls, timely, dns, up, io)} :
          /\ result' = r.result
          /\ resolved' = r.resolved
          /\ handed' = r.resolved
          /\ attempts' = r.attempts
          /\ used' = IF r.ok THEN [host |-> r.target.host, peer |-> r.peer] ELSE NoConn
          /\ pc' = IF ~r.ok THEN "done" ELSE IF config.use_tls THEN "tls" ELSE "handshake"
          /\ authority_str' = r.target
          /\ UNCHANGED <<cfg_vars, in_progress, connections, call, request, config, tls_client_config,
                         server_name, intercept, worker, stall>>

\* send_request_handler, the TLS branch: the server name is derived from
\* the authority string, then connector.connect is awaited; no timeout
\* wraps it, so only the peer's answer ends it
HttpTlsHandshake ==
    /\ adapter = "http"
    /\ pc = "tls"
    /\ stall # "tls" \/ ~ServerName_try_from(split_colon_first(authority_str))
    /\ \E outcome \in {"ok", "error"} :
       \E r \in {tls_phase(authority_str, outcome)} :
          /\ server_name' = r.domain
          /\ result' = IF r.ok THEN result ELSE r.result
          /\ pc' = IF r.ok THEN "handshake" ELSE "done"
          /\ UNCHANGED <<cfg_vars, in_progress, connections, call, resolved, handed, attempts, used, request,
                         config, tls_client_config, authority_str, intercept, worker, stall>>

\* send_request_handler, the HTTP/1.1 handshake under the connect timeout,
\* then the spawn of the connection driver
HttpHandshake ==
    /\ adapter = "http"
    /\ pc = "handshake"
    /\ \E outcome \in PhaseOutcomes(stall = "handshake") :
          /\ result' = handshake_phase(outcome)
          /\ worker' = IF outcome = "ok" THEN "running" ELSE worker
          /\ pc' = IF outcome = "ok" THEN "send" ELSE "done"
          /\ UNCHANGED <<cfg_vars, in_progress, connections, call, resolved, handed, attempts, used, request,
                         config, tls_client_config, authority_str, server_name, intercept, stall>>

\* send_request_handler, the send under the first-byte timeout; on an error
\* the driver's handle is dropped, which aborts the driver
HttpSend ==
    /\ adapter = "http"
    /\ pc = "send"
    /\ \E outcome \in PhaseOutcomes(stall = "send") :
          /\ request' = origin_form(request)
          /\ result' = send_phase(outcome)
          /\ worker' = IF outcome = "ok" \/ worker # "running" THEN worker ELSE "aborted"
          /\ pc' = "done"
          /\ UNCHANGED <<cfg_vars, in_progress, connections, call, resolved, handed, attempts, used, config,
                         tls_client_config, authority_str, server_name, intercept, stall>>

\* faulty variant of HttpWorker: the driver's error replaces the result
HttpWorker_surfaces_error ==
    /\ adapter = "http"
    /\ worker = "running"
    /\ \E outcome \in {"finished", "failed"} :
          /\ worker' = outcome
          /\ result' = IF outcome = "failed" THEN hyper_request_error ELSE result
          /\ UNCHANGED <<cfg_vars, in_progress, connections, call, resolved, handed, attempts, used,
                         pc, request, config, tls_client_config, authority_str, server_name,
                         intercept, stall>>

\* the spawned connection driver ends: an error is logged and dropped
HttpWorker ==
    /\ adapter = "http"
    /\ worker = "running"
    /\ \E outcome \in {"finished", "failed"} :
          /\ worker' = outcome
          /\ UNCHANGED <<cfg_vars, in_progress, connections, obs_vars, pc, request, config,
                         tls_client_config, authority_str, server_name, intercept, stall>>

\* the peer of the request in flight stops answering in the phase the
\* request is in
PeerStalls ==
    /\ adapter = "http"
    /\ pc \in Phases
    /\ stall = NoValue
    /\ stall' = pc
    /\ UNCHANGED <<cfg_vars, in_progress, connections, obs_vars, pc, request, config,
                   tls_client_config, authority_str, server_name, intercept, worker>>

\* one step of the request in flight
PipelineStep ==
    \/ HttpSendRequestImpl
    \/ HttpConnect
    \/ HttpTlsHandshake
    \/ HttpHandshake
    \/ HttpSend

Next ==
    \/ RedisOpen
    \/ RedisVerbBegin
    \/ RedisVerb
    \/ RedisDrop
    \/ RedisV1Verb
    \/ MysqlOpen
    \/ MysqlVerbBegin
    \/ MysqlVerb
    \/ MysqlDrop
    \/ MysqlV1Verb
    \/ GuestTakesResult
    \/ HttpSendRequest
    \/ HttpSendRequestImpl
    \/ HttpConnect
    \/ HttpTlsHandshake
    \/ HttpHandshake
    \/ HttpSend
    \/ HttpWorker
    \/ PeerStalls

Spec == Init /\ [][Next]_vars

\* ---- build_opts on its own: it is given the addresses of Queries
BuildOptsInit ==
    /\ adapter = "mysql"
    /\ allowed_hosts = DenyAll
    /\ blocked_networks = <<>>
    /\ self_request_origin = NoOrigin
    /\ request_interceptor = FALSE
    /\ pc = "idle"
    /\ request = NoRequest
    /\ config = [use_tls |-> FALSE]
    /\ tls_client_config = NoValue
    /\ authority_str = NoTarget
    /\ server_name = NoValue
    /\ intercept = NoValue
    /\ worker = "none"
    /\ stall = NoValue
    /\ in_progress = <<>>
    /\ connections = EmptyTable
    /\ call = NoCall
    /\ result = Ok(NoValue)
    /\ resolved = <<>>
    /\ handed = <<>>
    /\ attempts = <<>>
    /\ used = NoConn
    /\ query \in Queries
    /\ opts = NoOpts
    /\ value = NoReply
    /\ redis_results = NoResults

BuildOpts ==
    /\ call = NoCall
    /\ call' = Call("fn", "build_opts", NoAddress, -1, NoValue)
    /\ opts' = build_opts(query)
    /\ UNCHANGED <<adapter, allowed_hosts, blocked_networks, self_request_origin,
                   request_interceptor, query, value, redis_results, connections, result,
                   resolved, handed, attempts, used, http_vars, in_progress>>

BuildOptsSpec == BuildOptsInit /\ [][BuildOpts]_vars

\* ---- from_redis_value on its own: it is given the replies of Replies
FromRedisValueInit ==
    /\ adapter = "redis"
    /\ allowed_hosts = DenyAll
    /\ blocked_networks = <<>>
    /\ self_request_origin = NoOrigin
    /\ request_interceptor = FALSE
    /\ pc = "idle"
    /\ request = NoRequest
    /\ config = [use_tls |-> FALSE]
    /\ tls_client_config = NoValue
    /\ authority_str = NoTarget
    /\ server_name = NoValue
    /\ intercept = NoValue
    /\ worker = "none"
    /\ stall = NoValue
    /\ in_progress = <<>>
    /\ connections = EmptyTable
    /\ call = NoCall
    /\ result = Ok(NoValue)
    /\ resolved = <<>>
    /\ handed = <<>>
    /\ attempts = <<>>
    /\ used = NoConn
    /\ query = <<>>
    /\ opts = NoOpts
    /\ value \in Replies
    /\ redis_results = NoResults

FromRedisValue ==
    /\ call = NoCall
    /\ call' = Call("fn", "from_redis_value", NoAddress, -1, NoValue)
    /\ redis_results' = from_redis_value(value)
    /\ UNCHANGED <<adapter, allowed_hosts, blocked_networks, self_request_origin,
                   request_interceptor, query, opts, value, connections, result, resolved,
                   handed, attempts, used, http_vars, in_progress>>

FromRedisValueSpec == FromRedisValueInit /\ [][FromRedisValue]_vars

\* ---- send_request_impl and send_request_handler on their own: each is
\* given any descriptor (every form of authority, or none) with any TLS
\* flag, the flag being a field of the configuration apart from the URI
LiteralRequests ==
    {Req("wellformed", "https", h, p, "/api/x", NoValue) :
        h \in Ipv4Literals \cup Ipv6Literals, p \in {NoValue, "8443"}}
HandlerRequests == Requests \cup LiteralRequests
HandlerPolicies ==
    PolicyConfigs("http")
    \cup {[rules |-> {Rule("https", h) : h \in {"a.test"} \cup Ipv4Literals \cup Ipv6Literals},
           allow_self |-> {"http", "https"}]}
HandlerInit ==
    /\ adapter = "http"
    /\ allowed_hosts \in HandlerPolicies
    /\ blocked_networks \in BlockedConfigs
    /\ self_request_origin \in OriginConfigs("http")
    /\ request_interceptor = FALSE
    /\ pc \in {"spawned", "connect"}
    /\ request \in HandlerRequests
    /\ config \in [use_tls : BOOLEAN]
    /\ tls_client_config = (IF has_authority(request) THEN request.host ELSE "")
    /\ authority_str = NoTarget
    /\ server_name = NoValue
    /\ intercept = NoValue
    /\ worker = "none"
    /\ stall = NoValue
    /\ in_progress = <<>>
    /\ connections = EmptyTable
    /\ call = Call("http", "send", request, -1, NoValue)
    /\ result = Pending
    /\ resolved = <<>>
    /\ handed = <<>>
    /\ attempts = <<>>
    /\ used = NoConn
    /\ query = <<>>
    /\ opts = NoOpts
    /\ value = NoReply
    /\ redis_results = NoResults

HandlerNext ==
    \/ HttpSendRequestImpl
    \/ HttpConnect
    \/ HttpTlsHandshake
    \/ HttpHandshake
    \/ HttpSend
    \/ HttpWorker
    \/ PeerStalls

HandlerSpec == HandlerInit /\ [][HandlerNext]_vars

\* ================================ properties ============================
IsHttp == adapter = "http"
IsKv == adapter = "redis"
IsSql == adapter = "mysql"
AdapterScheme == IF IsKv THEN "redis" ELSE IF IsSql THEN "mysql" ELSE "https"
\* the last call opened a connection per call: a v2 open or a legacy verb
OpensConnection == (IsKv \/ IsSql) /\ (call.iface = "v1" \/ (call.iface = "v2" /\ call.op = "open"))
V2Open == (IsKv \/ IsSql) /\ call.iface = "v2" /\ call.op = "open"
V2Verb == (IsKv \/ IsSql) /\ call.iface = "v2" /\ call.op \in RedisVerbs \cup MysqlVerbs
V2Drop == (IsKv \/ IsSql) /\ call.iface = "v2" /\ call.op = "drop"
\* the policy evaluated the call's destination and no rule matched it
PolicyDenies ==
    /\ call.chk = "decide"
    /\ call.address.shape = "wellformed"
    /\ ~check_url(allowed_hosts, call.address, AdapterScheme)
\* the value each interface returns for a destination the policy denies
DenialError ==
    IF IsKv THEN (IF call.iface = "v1" THEN Err("Error", "") ELSE Err("InvalidAddress", ""))
    ELSE IF IsSql THEN Err("ConnectionFailed", "address is not permitted")
    ELSE Err("HttpRequestDenied", "")
NoBlockedAttempt == \A i \in 1 .. Len(attempts) : ~is_blocked(blocked_networks, attempts[i])

\* ---- C1
\* the descriptor send_request_impl was handed, and its allow-list decision
ImplRequest == intercepted(call.address, intercept)
HandledByImpl == IsHttp /\ call.op = "send" /\ intercept # "complete" /\ pc \notin {"idle", "spawned"}
CheckAllowed ==
    /\ call.chk = "decide"
    /\ IF has_authority(ImplRequest) THEN check_url(allowed_hosts, ImplRequest, "https")
       ELSE check_relative_url(allowed_hosts, {"http", "https"})
\* C1: a request handled by send_request_impl gets a connection attempt only
\* if its allow-list check returned allowed; a request whose check did not
\* return allowed ends with HttpRequestDenied and without any attempt.
C1_ConnectOnlyWhenAllowed ==
    HandledByImpl =>
        /\ attempts # <<>> => CheckAllowed
        /\ ~CheckAllowed =>
              pc = "done" /\ result = Err("HttpRequestDenied", "") /\ attempts = <<>> /\ resolved = <<>>
C1_Witness ==
    /\ HandledByImpl /\ pc = "done"
    /\ has_authority(ImplRequest) /\ call.chk = "decide" /\ ~CheckAllowed
    /\ result = Err("HttpRequestDenied", "")

\* ---- C2
\* C2: no HTTP connection attempt targets an address inside a blocked
\* network: only addresses the Blocked-Network Filter kept are attempted.
C2_HttpNeverAttemptsBlocked ==
    IsHttp => NoBlockedAttempt /\ handed = remove_blocked(blocked_networks, resolved).kept

\* ---- C3
\* C3: with no self-origin configured, a relative request gets no response
\* and causes no connection attempt.
C3_RelativeNeedsSelfOrigin ==
    (IsHttp /\ call.op = "send" /\ ~has_authority(call.address) /\ self_request_origin = NoOrigin)
        => /\ ~(result.ok /\ result.value \in {"response", "intercepted"})
           /\ attempts = <<>>

\* ---- C4
\* C4: a v2 open or a legacy verb of the key-value adapter, and a relational
\* open, on a destination the policy denies returns the interface's denial
\* error, attempts no connection and leaves the table as it was.
C4_DeniedOpenTouchesNothing ==
    [][(OpensConnection' /\ PolicyDenies')
          => /\ result' = DenialError'
             /\ resolved' = <<>> /\ attempts' = <<>>
             /\ connections' = connections]_vars
C4_Witness ==
    /\ IsKv /\ V2Open /\ PolicyDenies
    /\ result = Err("InvalidAddress", "") /\ attempts = <<>>
    /\ connections # EmptyTable

\* ---- C5
Unparseable == call.address.shape \in {"garbage", "clientbad"}
\* C5: an unparseable destination is rejected with an invalid-address or
\* invalid-URI error, and that value is not the one a denied well-formed
\* destination gets.
C5_InvalidDistinctFromDenied ==
    ((OpensConnection \/ (IsHttp /\ call.op = "send" /\ pc = "done" /\ intercept # "complete"))
        /\ call.chk = "decide" /\ Unparseable)
        => /\ ~result.ok
           /\ result.error.kind \in {"InvalidAddress", "HttpRequestUriInvalid"}
           /\ result # DenialError

\* ---- C6
\* the resolver got an answer and the filter removed every address of it
AllBlocked == IsKv /\ OpensConnection /\ resolved # <<>> /\ handed = <<>>
\* the error kinds a v2 open reports for a failed lookup and a refused connection
GenericFailureKinds ==
    {redis_establish_connection(EmptyTable, <<>>, Dest("wellformed", NoValue, "a.test", NoValue),
                                dns, {}).result.error.kind : dns \in DnsResults}
\* C6: when the filter removes every resolved address the guest gets a
\* destination-prohibited error, not the error of a generic DNS or
\* connection failure, and the error does not name a blocked address.
C6_AllBlockedIsDistinct ==
    (AllBlocked /\ call.iface = "v2")
        => /\ ~result.ok
           /\ result.error.kind \notin GenericFailureKinds
           /\ result.error.msg \notin Addrs

\* ---- C7
\* C7: every connection of the key-value and the relational adapter is made
\* through the filter: the client is handed exactly the resolved addresses
\* that are in no blocked network, in order, and attempts no blocked one.
C7_AdaptersConnectThroughFilter ==
    OpensConnection
        => /\ handed = remove_blocked(blocked_networks, resolved).kept
           /\ NoBlockedAttempt

\* ---- C8
\* C8: a legacy verb leaves the table with the handles it had before the call.
C8_LegacyLeavesTable ==
    [][((IsKv \/ IsSql) /\ call'.iface = "v1") => connections' = connections]_vars

\* ---- C9
NotFoundError ==
    IF IsKv THEN Err("Other", "could not find connection for resource")
    ELSE Err("ConnectionFailed", "no connection found")
\* C9: a handle is valid from the open that returned it until its drop: the
\* open stores the connection it made under the handle it returns, a verb
\* on a live handle runs on the connection stored under it, a drop removes
\* the handle, and a verb on a handle that is not live returns the
\* not-found error and runs nothing.
C9_HandleValidUntilDrop ==
    [][/\ (V2Open' /\ result'.ok)
            => /\ result'.value \in DOMAIN connections' /\ result'.value \notin DOMAIN connections
               /\ connections'[result'.value] =
                     [host |-> call'.address.host, peer |-> attempts'[Len(attempts')]]
       /\ V2Verb'
            => IF call'.handle \in DOMAIN connections
               THEN used' = connections[call'.handle] /\ result' # NotFoundError'
               ELSE used' = NoConn /\ result' = NotFoundError'
       /\ V2Drop' => call'.handle \notin DOMAIN connections']_vars
\* a verb on handle 0 finds nothing while handle 1 is live: 0 was opened
\* before 1 and has been dropped
C9_Witness ==
    /\ IsKv /\ V2Verb /\ call.handle = 0
    /\ 0 \notin DOMAIN connections /\ 1 \in DOMAIN connections
    /\ result = NotFoundError /\ used = NoConn

\* ---- C10
ExhaustionError ==
    IF IsKv THEN Err("TooManyConnections", "") ELSE Err("ConnectionFailed", "too many connections")
\* C10: an open on a table at capacity returns an error value to the guest
\* and leaves the table as it was; only a table at capacity makes an open
\* fail with the exhaustion error, so an open after a drop can succeed.
C10_FullTableIsRecoverable ==
    [][V2Open'
          => /\ TableLen(connections) >= Capacity
                  => /\ ~result'.ok /\ result'.error.kind # "HostError"
                     /\ connections' = connections
             /\ result' = ExhaustionError' => TableLen(connections) >= Capacity
             /\ TableLen(connections') <= Capacity]_vars
\* the table is full and the handle opened last is not the highest key: the
\* table was full before, a handle was dropped, and this open took its place
C10_Witness ==
    /\ V2Open /\ result.ok
    /\ TableLen(connections) = Capacity
    /\ result.value # Capacity - 1

\* ---- C11
\* the error kinds an open reports when the connection attempt itself fails
\* (failed lookup, no address left, connection refused)
ConnectFailureKinds ==
    IF IsKv THEN GenericFailureKinds
    ELSE {mysql_open_connection(EmptyTable, Dest("wellformed", NoValue, "a.test", NoValue),
                                dns, {}).result.error.kind : dns \in DnsResults}
\* C11: the error an open returns because the table is full has a kind that
\* no failed connection attempt is reported with.
C11_ExhaustionKindDistinct ==
    (V2Open /\ result = ExhaustionError) => result.error.kind \notin ConnectFailureKinds

\* ---- C12
\* C12: the table never holds more than Capacity connections, and no step
\* hands out a handle that is live: a connection in the table before a step
\* and after it is the same connection under the same handle, and a
\* successful open returns a handle that was not live.
C12_LiveHandlesUniqueWithinCapacity ==
    [][/\ TableLen(connections') <= Capacity
       /\ \A h \in DOMAIN connections \cap DOMAIN connections' : connections'[h] = connections[h]
       /\ (V2Open' /\ result'.ok)
            => /\ result'.value \notin DOMAIN connections
               /\ DOMAIN connections' = DOMAIN connections \cup {result'.value}]_vars
\* handle 0 is handed out again after its drop, while handle 1 is still live
C12_Witness ==
    /\ IsSql /\ V2Open /\ result.ok /\ result.value = 0
    /\ DOMAIN connections = {0, 1}
    /\ connections[0] # connections[1]

\* ---- C13
ConnectTimeoutError == Err("ConnectionTimeout", "")
FirstByteTimeoutError == Err("ConnectionReadTimeout", "")
C14_EveryPhaseBounded ==
    (IsHttp /\ pc \in Phases) => ENABLED PipelineStep

\* ---- C15
\* the error values of each guest-facing interface
TypedErrorKinds ==
    IF IsKv THEN (IF call.iface = "v1" THEN {"Error"}
                  ELSE {"InvalidAddress", "TooManyConnections", "TypeError", "Other"})
    ELSE IF IsSql THEN (IF call.iface = "v1"
                        THEN {"ConnectionFailed", "BadParameter", "QueryFailed",
                              "ValueConversionFailed", "OtherError"}
                        ELSE {"ConnectionFailed", "BadParameter", "QueryFailed",
                              "ValueConversionFailed", "Other"})
    ELSE {"HttpRequestDenied", "HttpRequestUriInvalid", "DnsError", "ConnectionRefused",
          "ConnectionTimeout", "ConnectionReadTimeout", "TlsProtocolError",
          "HttpProtocolError", "InternalError"}
\* C15: every call that has ended returned a success value or one of its
\* interface's error values; none ended in a host-level error or a panic.
C15_FailuresAreTypedResults ==
    (call # NoCall /\ (IsHttp => pc = "done"))
        => result.ok \/ result.error.kind \in TypedErrorKinds

\* ---- C16
\* C16: when send_request_impl passes a relative request on to the
\* connection, the request carries the self-origin's scheme and authority,
\* its own path, a Host header naming the self-origin's host, and a TLS
\* flag that is set iff the self-origin's scheme is https, whatever the flag
\* was before; the connection is then made to the self-origin's host.
C16_SelfRequestRewritten ==
    [][/\ (IsHttp /\ pc = "spawned" /\ pc' = "connect" /\ ~has_authority(request))
            => /\ request'.scheme = self_request_origin.scheme
               /\ request'.host = self_request_origin.host
               /\ request'.path = request.path
               /\ request'.host_header = self_request_origin.host
               /\ config'.use_tls = (self_request_origin.scheme = "https")
       /\ (IsHttp /\ pc = "connect" /\ pc' \in {"tls", "handshake"} /\ ~has_authority(ImplRequest))
            => /\ used'.host = self_request_origin.host
               /\ (pc' = "tls") = (self_request_origin.scheme = "https")]_vars
\* the relative request /api/x has been rewritten to https://a.test/api/x
\* and connected under TLS
C16_Witness ==
    /\ IsHttp /\ pc = "tls" /\ call.address = RelativeRequest
    /\ request = Req("wellformed", "https", "a.test", NoValue, "/api/x", "a.test")
    /\ config.use_tls /\ used.host = "a.test"

\* ---- C17
\* C17: no two operations are in progress on the same handle: a verb called
\* while another holds the instance state starts only after that one returned.
C17_OneOperationPerHandle ==
    \A i, j \in 1 .. Len(in_progress) :
        i # j => in_progress[i].handle # in_progress[j].handle
\* a verb is in progress on a live handle
C17_Witness ==
    /\ IsKv /\ Len(in_progress) = 1
    /\ in_progress[1].verb = "set" /\ in_progress[1].handle \in DOMAIN connections

\* ---- C18
SameIgnoringCase(a, b) == to_lowercase(a) = to_lowercase(b)
IsSslModePair(kv) == SameIgnoringCase(kv.key, "ssl-mode") \/ SameIgnoringCase(kv.key, "sslmode")
BuildOptsReturned == call.op = "build_opts"
SentRequestAllowed ==
    IF has_authority(call.address) THEN check_url(allowed_hosts, call.address, "https")
    ELSE check_relative_url(allowed_hosts, {"http", "https"})
\* C19: the interceptor is consulted only for a request the policy allows,
\* and a request the policy denies ends with HttpRequestDenied.
C19_InterceptAfterAuthorize ==
    (IsHttp /\ call.op = "send")
        => /\ intercept # NoValue => SentRequestAllowed
           /\ (~SentRequestAllowed /\ pc = "done") => result = Err("HttpRequestDenied", "")

\* ---- C20
\* C20: when the interceptor completes a request, send_request returns the
\* interceptor's result, nothing is resolved, connected to or spawned and no
\* step of the pipeline follows; otherwise send_request_impl is spawned on
\* the descriptor as the interceptor left it.
C20_CompleteShortCircuits ==
    (IsHttp /\ call.op = "send")
        => /\ intercept = "complete"
                => /\ pc = "done" /\ result = Ok("intercepted")
                   /\ resolved = <<>> /\ handed = <<>> /\ attempts = <<>> /\ used = NoConn
                   /\ worker = "none" /\ call.chk = NoValue
                   /\ ~ENABLED PipelineStep
           /\ (intercept # "complete" /\ pc = "spawned")
                => /\ result = Pending
                   /\ request = (IF intercept = "mutate"
                                 THEN [call.address EXCEPT !.shape = "wellformed", !.scheme = "https",
                                                           !.host = "b.test", !.port = NoValue]
                                 ELSE call.address)
                   /\ ENABLED PipelineStep
\* a request the pipeline would have dispatched is answered by the interceptor
C20_Witness ==
    /\ IsHttp /\ intercept = "complete" /\ pc = "done"
    /\ call.address = Req("wellformed", "https", "a.test", NoValue, "/api/x", NoValue)
    /\ SentRequestAllowed
    /\ result = Ok("intercepted") /\ attempts = <<>>

\* ---- C21
\* the relative check of the request send_request_impl was handed passed
RelativeCheckPasses == call.chk = "decide" /\ check_relative_url(allowed_hosts, {"http", "https"})
\* C21: for a relative request, a failed self-request check gives
\* HttpRequestDenied whether or not a self-origin is configured; a passed
\* check without a self-origin gives HttpRequestUriInvalid; in both cases the
\* descriptor is left as it was and nothing is resolved or connected to.
C21_RelativeFailurePrecedence ==
    [][(IsHttp /\ pc = "spawned" /\ pc' # pc /\ ~has_authority(request)) =>
          /\ ~RelativeCheckPasses' =>
                /\ result' = Err("HttpRequestDenied", "")
                /\ pc' = "done" /\ request' = request /\ config' = config
                /\ resolved' = <<>> /\ attempts' = <<>> /\ used' = NoConn
          /\ (RelativeCheckPasses' /\ self_request_origin = NoOrigin) =>
                /\ result' = Err("HttpRequestUriInvalid", "")
                /\ pc' = "done" /\ request' = request /\ config' = config
                /\ resolved' = <<>> /\ attempts' = <<>> /\ used' = NoConn]_vars
\* a relative request whose check failed although a self-origin is configured
C21_Witness ==
    /\ IsHttp /\ pc = "done" /\ intercept # "complete"
    /\ ~has_authority(ImplRequest)
    /\ ~RelativeCheckPasses
    /\ self_request_origin # NoOrigin
    /\ result = Err("HttpRequestDenied", "")
    /\ request = ImplRequest

\* ---- C22
\* C22: the connect target is the authority's host with its explicit port,
\* else with port 443 when the TLS flag is set and 80 when it is not; a
\* request at the connect step without an authority ends with
\* HttpRequestUriInvalid and nothing is resolved or connected to.
C22_ConnectTarget ==
    [][(IsHttp /\ pc = "connect" /\ pc' # pc) =>
          IF has_authority(request)
          THEN /\ authority_str'.host = request.host
               /\ request.port # NoValue => authority_str'.port = request.port
               /\ (request.port = NoValue /\ config.use_tls) => authority_str'.port = "443"
               /\ (request.port = NoValue /\ ~config.use_tls) => authority_str'.port = "80"
               /\ used' # NoConn => used'.host = request.host
          ELSE /\ result' = Err("HttpRequestUriInvalid", "")
               /\ pc' = "done"
               /\ authority_str' = NoTarget
               /\ resolved' = <<>> /\ attempts' = <<>> /\ used' = NoConn]_vars
\* a connection made on the default port of a TLS flag that is not the
\* scheme's
C22_Witness ==
    /\ IsHttp /\ used # NoConn
    /\ authority_str = [host |-> used.host, port |-> "80"]
    /\ call.address.scheme = "https" /\ call.address.port = NoValue
    /\ ~config.use_tls

\* ---- C23
\* the codes of a failed name resolution and of a refused TCP connect
ResolveOrConnectKinds == {"DnsError", "ConnectionRefused"}
\* C23: a failed TLS handshake ends the request with TlsProtocolError, and a
\* request that fails after its TCP connection was made ends with a code
\* that is neither the DNS code nor the connection-refused code.
C23_PostConnectFailureCodes ==
    [][/\ (IsHttp /\ pc = "tls" /\ pc' = "done" /\ server_name' # NoValue) =>
             result' = Err("TlsProtocolError", "")
       /\ (IsHttp /\ used' # NoConn /\ ~result'.ok) =>
             result'.error.kind \notin ResolveOrConnectKinds]_vars

OtherHandleLive ==
    /\ (IsKv \/ IsSql) /\ in_progress # <<>>
    /\ in_progress[1].handle \in DOMAIN connections
    /\ \E h \in DOMAIN connections : h # in_progress[1].handle
TransportFailureValue ==
    IF call.iface = "v1" THEN Err("Error", "") ELSE redis_map_err(call.op, "transport_error")
\* C26: for every key-value verb of either interface, the error returned
\* when the destination itself rejects the command (a type mismatch) is not
\* the value the verb returns for a transport failure.
C26_BackendErrorDistinct ==
    (IsKv /\ call.op \in RedisVerbs /\ call.reply = "type_error") =>
        /\ ~result.ok
        /\ result # TransportFailureValue

\* ---- C27
FromRedisValueReturned == call.op = "from_redis_value"
\* the leaves of a reply in depth-first order, arrays and sets replaced by
\* their elements
RECURSIVE LeavesInOrder(_)
RECURSIVE LeavesOfItems(_)
LeavesInOrder(v) == IF v.tag \in {"Array", "Set"} THEN LeavesOfItems(v.items) ELSE <<v>>
LeavesOfItems(items) ==
    IF items = <<>> THEN <<>> ELSE LeavesInOrder(Head(items)) \o LeavesOfItems(Tail(items))
Unconvertible == {"Map", "Attribute", "VerbatimString", "Push", "ServerError"}
DecimalText(payload) ==
    CASE payload = "0x3ff8000000000000" -> "1.5"
      [] payload = "2^64" -> "18446744073709551616"
LeafResult(l) ==
    CASE l.tag = "Nil" -> [tag |-> "Nil", payload |-> NoValue]
      [] l.tag = "Int" -> [tag |-> "Int64", payload |-> l.payload]
      [] l.tag = "BulkString" -> [tag |-> "Binary", payload |-> l.payload]
      [] l.tag = "SimpleString" -> [tag |-> "Status", payload |-> l.payload]
      [] l.tag = "Okay" -> [tag |-> "Status", payload |-> "OK"]
      [] l.tag = "Boolean" -> [tag |-> "Int64", payload |-> IF l.payload = "true" THEN "1" ELSE "0"]
      [] l.tag \in {"Double", "BigNumber"} -> [tag |-> "Binary", payload |-> DecimalText(l.payload)]
\* C27: from_redis_value returns the reply's leaves in depth-first order,
\* each converted by its kind (Nil, Int64, Binary, Status, Status "OK",
\* Int64 1/0, Binary of the decimal text); if a leaf at any depth is a Map,
\* Attribute, VerbatimString, Push or ServerError it returns an error and
\* no list.
C27_ReplyFlattened ==
    FromRedisValueReturned =>
        LET ls == LeavesInOrder(value) IN
        IF \E i \in 1 .. Len(ls) : ls[i].tag \in Unconvertible
        THEN ~redis_results.ok /\ redis_results.value = NoValue
        ELSE redis_results = Ok([i \in 1 .. Len(ls) |-> LeafResult(ls[i])])
\* an array holding a set was flattened in order
C27_Witness ==
    /\ FromRedisValueReturned
    /\ value = Container("Array", <<Container("Set", <<Leaf("Int", "-7"), Leaf("Int", "-7")>>),
                                    Leaf("Okay", NoValue)>>)
    /\ redis_results = Ok(<<RedisResult("Int64", "-7"), RedisResult("Int64", "-7"),
                            RedisResult("Status", "OK")>>)

\* ---- C28
\* the request's connection was made and its TLS handshake follows or ran
TlsOnConnection == IsHttp /\ used # NoConn /\ config.use_tls
\* C28: the TLS client configuration of a request's handshake is the one
\* keyed by the host the connection was made to, for absolute requests,
\* requests the interceptor changed, and relative requests rewritten to the
\* self-origin.
C28_TlsConfigOfConnectedHost ==
    TlsOnConnection => tls_client_config = authority_str.host

\* ---- C29
\* the effective port the allow-list check authorized for the descriptor
\* the connection is made for: its explicit port, else the default port of
\* its scheme
AuthorizedPort(req) == IF req.port # NoValue THEN req.port ELSE DefaultPort(req.scheme)
\* C29: when a connection is attempted for a request that send_request_impl
\* authorized, its target is the authorized host and effective port: the
\* default port taken from the TLS flag agrees with the default port of the
\* URI scheme, also when the flag and the scheme disagree.
C29_ConnectTargetIsAuthorized ==
    [][(IsHttp /\ pc = "connect" /\ call.chk = "decide" /\ attempts' # <<>>) =>
          /\ authority_str'.host = request.host
          /\ authority_str'.port = AuthorizedPort(request)]_vars

\* ---- C30
\* C30: when the allow-list check of a call returns an error instead of a
\* decision (HTTP absolute and relative checks, key-value open and legacy
\* verbs), the call returns an error, nothing is resolved or connected to,
\* and the connection table is left as it was.
C30_PolicyErrorFailsClosed ==
    [][(call'.chk = "error" /\ call' # call) =>
          /\ ~result'.ok
          /\ resolved' = <<>> /\ attempts' = <<>> /\ used' = NoConn
          /\ connections' = connections
          /\ IsHttp => (pc' = "done" /\ result' = Err("HttpRequestDenied", ""))]_vars
\* a key-value open of a destination the rules allow, whose check failed
C30_Witness ==
    /\ IsKv /\ V2Open
    /\ call.chk = "error"
    /\ call.address.shape = "wellformed"
    /\ check_url(allowed_hosts, call.address, "redis")
    /\ result = Err("Other", "policy check failed")
    /\ connections = EmptyTable

\* ---- C31
\* every handle of the table before the step is in it after, with its connection
HandlesKept(keep) == \A k \in keep : k \in DOMAIN connections' /\ connections'[k] = connections[k]
\* C31: in the handle-based interfaces a successful open adds exactly one new
\* handle, a drop removes exactly the named handle (an unknown handle
\* changes nothing) and reports no error, and every verb, every failed open
\* and every other step of these interfaces leave the table as it was.
C31_HandleSetFrame ==
    [][((IsKv \/ IsSql) /\ call'.iface # "v1") =>
          /\ (call' # call /\ V2Open' /\ result'.ok) =>
                /\ result'.value \notin DOMAIN connections
                /\ DOMAIN connections' = DOMAIN connections \cup {result'.value}
                /\ HandlesKept(DOMAIN connections)
          /\ (call' # call /\ V2Drop') =>
                /\ result' = Ok(NoValue)
                /\ DOMAIN connections' = DOMAIN connections \ {call'.handle}
                /\ HandlesKept(DOMAIN connections \ {call'.handle})
          /\ ~(call' # call /\ ((V2Open' /\ result'.ok) \/ V2Drop')) =>
                connections' = connections]_vars
\* a drop named handle 0: it is gone, handle 1 and its connection stayed
C31_Witness ==
    /\ IsSql /\ V2Drop /\ call.handle = 0
    /\ DOMAIN connections = {1}
    /\ result = Ok(NoValue)

\* ---- C32
\* the TLS branch of the request ran on its connection
TlsBranchRan == TlsOnConnection /\ pc \in {"handshake", "send", "done"}
\* the host component of an authority's host: the host itself, for a
\* bracketed IPv6 literal the address with or without its brackets
HostComponents(host) == IF host \in Ipv6Literals THEN {host, "::1"} ELSE {host}
\* C32: the server name of a request's TLS handshake is the host component
\* of the authority the connection was made to, for a hostname, an IPv4
\* literal and a bracketed IPv6 literal, with or without port; deriving the
\* name of such a host never fails.
C32_ServerNameIsAuthorityHost ==
    TlsBranchRan =>
        /\ result # dns_error("invalid dns name")
        /\ server_name \in HostComponents(authority_str.host)

====
